---- MODULE Spec2Model ----
(***************************************************************************)
(* A model of the Leonardo heap (rust-leonardo-heap): the Leonardo table,  *)
(* the Layout bitmask, the sub-heap views, sift_down / restring, the two   *)
(* balance procedures and the LeonardoHeap container built on them.        *)
(*                                                                         *)
(* Arrays are sequences (1-based); a slice of the backing array is the     *)
(* pair of 0-based offsets [lo, hi) Rust uses, so element hi-1 of the      *)
(* slice is arr[hi] here.  Option<T> is <<>> (None) or <<x>> (Some(x)).    *)
(* A panic (a failed assert_eq!, an unwrap of None) is the result          *)
(* [ok |-> FALSE, ...] of the operator that models the panicking code.     *)
(***************************************************************************)
EXTENDS Integers, Sequences, FiniteSets

\* Longest array, and largest layout size, handed to the balance functions
\* and to Layout::iter with a layout of any size.
MaxMismatchLen == 4
MaxMismatchSize == 12

\* Largest size a Layout on its own is pushed to.
MaxLayoutSize == 200

\* Largest number of elements the heap is grown to.
MaxLen == 9
\* Elements are the integers 1..MaxVal, compared by <.
MaxVal == 4

Values == 1..MaxVal

None == <<>>
Some(x) == <<x>>

Ok(x) == [ok |-> TRUE, val |-> x]
Panic(x) == [ok |-> FALSE, val |-> x]

(***************************************************************************)
(* u64 bit operations on the orders bitmask.                               *)
(***************************************************************************)
RECURSIVE BitAnd(_, _)
BitAnd(a, b) ==
    IF a = 0 \/ b = 0 THEN 0
    ELSE (a % 2) * (b % 2) + 2 * BitAnd(a \div 2, b \div 2)

RECURSIVE BitOr(_, _)
BitOr(a, b) ==
    IF a = 0 THEN b
    ELSE IF b = 0 THEN a
    ELSE (IF a % 2 = 1 \/ b % 2 = 1 THEN 1 ELSE 0) + 2 * BitOr(a \div 2, b \div 2)

RECURSIVE BitXor(_, _)
BitXor(a, b) ==
    IF a = 0 THEN b
    ELSE IF b = 0 THEN a
    ELSE ((a + b) % 2) + 2 * BitXor(a \div 2, b \div 2)

\* a & !m
RECURSIVE BitAndNot(_, _)
BitAndNot(a, m) ==
    IF a = 0 THEN 0
    ELSE (a % 2) * (1 - (m % 2)) + 2 * BitAndNot(a \div 2, m \div 2)

\* a << n
Shl(a, n) == a * (2 ^ n)

\* u64::trailing_zeros: 64 for 0
RECURSIVE trailing_zeros(_)
trailing_zeros(x) ==
    IF x = 0 THEN 64
    ELSE IF x % 2 = 1 THEN 0
    ELSE 1 + trailing_zeros(x \div 2)

(***************************************************************************)
(* leonardo.rs                                                             *)
(***************************************************************************)
\* The entries of the table for the orders 0..43; those of the orders 44..63
\* are above 2^31, which no integer of this model reaches: the whole table
\* is LEONARDO_NUMBERS_LIMBS below.
LEONARDO_NUMBERS ==
    << 1, 1, 3, 5, 9, 15, 25, 41, 67, 109, 177, 287, 465, 753, 1219, 1973, 3193,
       5167, 8361, 13529, 21891, 35421, 57313, 92735, 150049, 242785, 392835,
       635621, 1028457, 1664079, 2692537, 4356617, 7049155, 11405773, 18454929,
       29860703, 48315633, 78176337, 126491971, 204668309, 331160281, 535828591,
       866988873, 1402817465 >>

leonardo_lookup(order) == LEONARDO_NUMBERS[order + 1]

leonardo(order) == leonardo_lookup(order)

\* A u64 n is held as the pair <<n \div LimbBase, n % LimbBase>>.
LimbBase == 1000000000

\* a + b on such pairs (no entry of the table comes near 2^64).
AddLimbs(a, b) ==
    LET lo == a[2] + b[2]
    IN  << a[1] + b[1] + (lo \div LimbBase), lo % LimbBase >>

\* The 64 entries of the table, for the orders 0..63.
LEONARDO_NUMBERS_LIMBS ==
    <<
      <<0, 1>>, <<0, 1>>, <<0, 3>>, <<0, 5>>, <<0, 9>>, <<0, 15>>, <<0, 25>>,
       <<0, 41>>, <<0, 67>>, <<0, 109>>, <<0, 177>>, <<0, 287>>, <<0, 465>>,
       <<0, 753>>, <<0, 1219>>, <<0, 1973>>, <<0, 3193>>, <<0, 5167>>,
       <<0, 8361>>, <<0, 13529>>, <<0, 21891>>, <<0, 35421>>, <<0, 57313>>,
       <<0, 92735>>, <<0, 150049>>, <<0, 242785>>, <<0, 392835>>,
       <<0, 635621>>, <<0, 1028457>>, <<0, 1664079>>, <<0, 2692537>>,
       <<0, 4356617>>, <<0, 7049155>>, <<0, 11405773>>, <<0, 18454929>>,
       <<0, 29860703>>, <<0, 48315633>>, <<0, 78176337>>, <<0, 126491971>>,
       <<0, 204668309>>, <<0, 331160281>>, <<0, 535828591>>,
       <<0, 866988873>>, <<1, 402817465>>, <<2, 269806339>>,
       <<3, 672623805>>, <<5, 942430145>>, <<9, 615053951>>,
       <<15, 557484097>>, <<25, 172538049>>, <<40, 730022147>>,
       <<65, 902560197>>, <<106, 632582345>>, <<172, 535142543>>,
       <<279, 167724889>>, <<451, 702867433>>, <<730, 870592323>>,
       <<1182, 573459757>>, <<1913, 444052081>>, <<3096, 17511839>>,
       <<5009, 461563921>>, <<8105, 479075761>>, <<13114, 940639683>>,
       <<21220, 419715445>>
    >>

\* The lookup reading the entry of the order before.
leonardo_lookup_limbs_off_by_one(order) ==
    LEONARDO_NUMBERS_LIMBS[IF order = 0 THEN 1 ELSE order]

leonardo_lookup_limbs(order) == LEONARDO_NUMBERS_LIMBS[order + 1]

\* leonardo_naive up to its loop: the locals, and value = Some(what it
\* returned) once it has returned.
leonardo_naive(order) ==
    [order |-> order, i |-> 2, n_minus_2 |-> <<0, 1>>, n_minus_1 |-> <<0, 1>>,
     value |-> IF order < 2 THEN Some(<<0, 1>>) ELSE None]

\* One turn of the loop of leonardo_naive on the locals st.
leonardo_naive_loop(st) ==
    LET n == AddLimbs(AddLimbs(st.n_minus_2, st.n_minus_1), <<0, 1>>)
    IN  IF st.i = st.order
        THEN [st EXCEPT !.value = Some(n)]
        ELSE [st EXCEPT !.i = st.i + 1, !.n_minus_2 = st.n_minus_1,
                        !.n_minus_1 = n]

(***************************************************************************)
(* layout.rs: Layout                                                       *)
(***************************************************************************)
Layout_new == [orders |-> 0, size |-> 0]

Layout_len(l) == l.size

lowest_order(l) ==
    LET n == trailing_zeros(l.orders)
    IN  IF n = 64 THEN None ELSE Some(n)

\* leonardo(order) <= remaining, for every order below 64 (see the table).
leonardo_le(order, remaining) ==
    order < Len(LEONARDO_NUMBERS) /\ leonardo(order) <= remaining

\* The loop of new_from_len, for order in (0..k).rev().
RECURSIVE new_from_len_loop(_, _, _)
new_from_len_loop(orders, remaining, k) ==
    IF k = 0 THEN orders
    ELSE LET order == k - 1
         IN  IF leonardo_le(order, remaining)
             THEN new_from_len_loop(BitOr(orders, Shl(1, order)),
                                    remaining - leonardo(order), order)
             ELSE new_from_len_loop(orders, remaining, order)

\* The loop of new_from_len run from order 0 upwards.
RECURSIVE new_from_len_loop_ascending(_, _, _)
new_from_len_loop_ascending(orders, remaining, k) ==
    IF k = 0 THEN orders
    ELSE LET order == 63 - k
         IN  IF leonardo_le(order, remaining)
             THEN new_from_len_loop_ascending(BitOr(orders, Shl(1, order)),
                                              remaining - leonardo(order), k - 1)
             ELSE new_from_len_loop_ascending(orders, remaining, k - 1)

Layout_new_from_len_ascending(size) ==
    [orders |-> new_from_len_loop_ascending(0, size, 63), size |-> size]

Layout_new_from_len(size) ==
    [orders |-> new_from_len_loop(0, size, 63), size |-> size]

\* Layout::push without `self.size += 1`.
Layout_push_size_kept(l) ==
    LET lo == lowest_order(l)
    IN  IF lo /= None
        THEN LET lowest == lo[1]
                 mergeable_mask == Shl(3, lowest)
             IN  IF BitAnd(mergeable_mask, l.orders) = mergeable_mask
                 THEN [orders |-> BitOr(BitAndNot(l.orders, mergeable_mask),
                                        Shl(1, lowest + 2)),
                       size |-> l.size]
                 ELSE IF lowest = 1
                 THEN [orders |-> BitOr(l.orders, 1), size |-> l.size]
                 ELSE [orders |-> BitOr(l.orders, 2), size |-> l.size]
        ELSE [orders |-> BitOr(l.orders, 2), size |-> l.size]

\* Layout::push that sets the merged order without clearing the two merged.
Layout_push_keep_merged(l) ==
    LET size == l.size + 1
        lo == lowest_order(l)
    IN  IF lo /= None
        THEN LET lowest == lo[1]
                 mergeable_mask == Shl(3, lowest)
             IN  IF BitAnd(mergeable_mask, l.orders) = mergeable_mask
                 THEN [orders |-> BitOr(l.orders, Shl(1, lowest + 2)),
                       size |-> size]
                 ELSE IF lowest = 1
                 THEN [orders |-> BitOr(l.orders, 1), size |-> size]
                 ELSE [orders |-> BitOr(l.orders, 2), size |-> size]
        ELSE [orders |-> BitOr(l.orders, 2), size |-> size]

Layout_push(l) ==
    LET size == l.size + 1
        lo == lowest_order(l)
    IN  IF lo /= None
        THEN LET lowest == lo[1]
                 mergeable_mask == Shl(3, lowest)
             IN  IF BitAnd(mergeable_mask, l.orders) = mergeable_mask
                 THEN [orders |-> BitOr(BitAndNot(l.orders, mergeable_mask),
                                        Shl(1, lowest + 2)),
                       size |-> size]
                 ELSE IF lowest = 1
                 THEN [orders |-> BitOr(l.orders, 1), size |-> size]
                 ELSE [orders |-> BitOr(l.orders, 2), size |-> size]
        ELSE [orders |-> BitOr(l.orders, 2), size |-> size]

\* Layout::pop without the early return on size 0.
Layout_pop_unguarded(l) ==
    LET size == l.size - 1
        lo == lowest_order(l)
    IN  IF lo /= None
        THEN LET lowest == lo[1]
                 cleared == BitAndNot(l.orders, Shl(1, lowest))
             IN  IF lowest /= 0 /\ lowest /= 1
                 THEN [orders |-> BitOr(cleared, Shl(3, lowest - 2)),
                       size |-> size]
                 ELSE [orders |-> cleared, size |-> size]
        ELSE [orders |-> l.orders, size |-> size]

\* Layout::pop that clears the lowest order without setting its children's.
Layout_pop_no_split(l) ==
    IF l.size = 0 THEN l
    ELSE LET size == l.size - 1
             lo == lowest_order(l)
         IN  IF lo /= None
             THEN [orders |-> BitAndNot(l.orders, Shl(1, lo[1])), size |-> size]
             ELSE [orders |-> l.orders, size |-> size]

Layout_pop(l) ==
    IF l.size = 0 THEN l
    ELSE LET size == l.size - 1
             lo == lowest_order(l)
         IN  IF lo /= None
             THEN LET lowest == lo[1]
                      cleared == BitAndNot(l.orders, Shl(1, lowest))
                  IN  IF lowest /= 0 /\ lowest /= 1
                      THEN [orders |-> BitOr(cleared, Shl(3, lowest - 2)),
                            size |-> size]
                      ELSE [orders |-> cleared, size |-> size]
             ELSE [orders |-> l.orders, size |-> size]

(***************************************************************************)
(* subheap.rs: SubHeapMut, a view of the slice [lo, hi) with an order      *)
(***************************************************************************)
\* assert_eq!(data.len(), leonardo(order)): a view of the wrong length does
\* not exist (every use of it below then fails to evaluate).
SubHeapMut_new(lo, hi, order) ==
    IF hi - lo = leonardo(order)
    THEN [lo |-> lo, hi |-> hi, order |-> order]
    ELSE [panic |-> "assertion failed: data.len() == leonardo(order)"]

\* Index (1-based) of data.last(): the head of the subheap.
value_mut(heap) == heap.hi

value(arr, heap) == arr[value_mut(heap)]

into_value(heap) == heap.hi

\* destructure_mut with the order-(k-2) child cut from the front of the body.
destructure_mut_fst_first(heap) ==
    IF heap.order > 1
    THEN LET fst_order == heap.order - 2
             snd_order == heap.order - 1
             body_lo == heap.lo
             body_hi == heap.hi - 1
             mid == body_lo + leonardo(fst_order)
         IN  [value |-> heap.hi,
              children |-> << SubHeapMut_new(body_lo, mid, fst_order),
                              SubHeapMut_new(mid, body_hi, snd_order) >>]
    ELSE [value |-> value_mut(heap), children |-> None]

\* (value, children): the index of the head, and None or the pair
\* <<fst_child, snd_child>> of orders order-2 and order-1.
destructure_mut(heap) ==
    IF heap.order > 1
    THEN LET fst_order == heap.order - 2
             snd_order == heap.order - 1
             \* split_last_mut: value = data[len-1], body = [lo, hi-1)
             body_lo == heap.lo
             body_hi == heap.hi - 1
             \* body.split_at_mut(leonardo(snd_order)): snd_data, then fst_data
             mid == body_lo + leonardo(snd_order)
         IN  [value |-> heap.hi,
              children |-> << SubHeapMut_new(mid, body_hi, fst_order),
                              SubHeapMut_new(body_lo, mid, snd_order) >>]
    ELSE [value |-> value_mut(heap), children |-> None]

into_components(heap) ==
    IF heap.order > 1
    THEN LET fst_order == heap.order - 2
             snd_order == heap.order - 1
             body_lo == heap.lo
             body_hi == heap.hi - 1
             mid == body_lo + leonardo(snd_order)
         IN  [value |-> heap.hi,
              children |-> << SubHeapMut_new(mid, body_hi, fst_order),
                              SubHeapMut_new(body_lo, mid, snd_order) >>]
    ELSE [value |-> into_value(heap), children |-> None]

(***************************************************************************)
(* layout.rs: Layout::iter and IterMut                                     *)
(***************************************************************************)
\* The iterator over a slice [0, len) of the backing array; the assert_eq!
\* of the slice's length against the layout's size panics.
Layout_iter(l, len) ==
    IF len = Layout_len(l)
    THEN Ok([heap_len |-> len, orders |-> l.orders])
    ELSE Panic([heap_len |-> len, orders |-> l.orders])

\* IterMut::next taking the highest order left instead of the lowest.
IterMut_next_highest_first(it) ==
    IF it.orders /= 0
    THEN LET order == CHOOSE k \in 0..30 : 2 ^ k <= it.orders /\ it.orders < 2 ^ (k + 1)
             orders == BitXor(it.orders, Shl(1, order))
             heap_len == it.heap_len
             mid == heap_len - leonardo(order)
         IN  [item |-> Some(SubHeapMut_new(mid, heap_len, order)),
              iter |-> [heap_len |-> mid, orders |-> orders]]
    ELSE [item |-> None, iter |-> it]

\* (item, iter): the next subheap, cut from the end of what is left.
IterMut_next(it) ==
    IF it.orders /= 0
    THEN LET order == trailing_zeros(it.orders)
             orders == BitXor(it.orders, Shl(1, order))
             heap_len == it.heap_len
             mid == heap_len - leonardo(order)
         IN  [item |-> Some(SubHeapMut_new(mid, heap_len, order)),
              iter |-> [heap_len |-> mid, orders |-> orders]]
    ELSE [item |-> None, iter |-> it]

(***************************************************************************)
(* lib.rs: sift_down, restring, balance_after_push, balance_after_pop      *)
(***************************************************************************)
\* std::mem::swap of two elements of the array
swap(arr, i, j) == [arr EXCEPT ![i] = arr[j], ![j] = arr[i]]

\* The loop of sift_down taking the order-(k-2) child when the heads are equal.
RECURSIVE sift_down_loop_prefer_fst(_, _, _)
sift_down_loop_prefer_fst(arr, this_value, children) ==
    IF children = None THEN arr
    ELSE LET fst_child == children[1]
             snd_child == children[2]
             next_heap == IF value(arr, fst_child) >= value(arr, snd_child)
                          THEN fst_child
                          ELSE snd_child
         IN  IF arr[this_value] >= value(arr, next_heap) THEN arr
             ELSE LET c == into_components(next_heap)
                  IN  sift_down_loop_prefer_fst(
                          swap(arr, this_value, value_mut(next_heap)),
                          c.value, c.children)

\* The loop of sift_down: this_value is the index of the current head,
\* children its children (None at the bottom).
RECURSIVE sift_down_loop(_, _, _)
sift_down_loop(arr, this_value, children) ==
    IF children = None THEN arr
    ELSE LET fst_child == children[1]
             snd_child == children[2]
             next_heap == IF value(arr, fst_child) > value(arr, snd_child)
                          THEN fst_child
                          ELSE snd_child
         IN  IF arr[this_value] >= value(arr, next_heap) THEN arr
             ELSE LET c == into_components(next_heap)
                  IN  sift_down_loop(swap(arr, this_value, value_mut(next_heap)),
                                     c.value, c.children)

\* sift_down that swaps with the larger child once and does not descend.
sift_down_one_level(arr, heap) ==
    LET d == destructure_mut(heap)
    IN  IF d.children = None THEN arr
        ELSE LET fst_child == d.children[1]
                 snd_child == d.children[2]
                 next_heap == IF value(arr, fst_child) > value(arr, snd_child)
                              THEN fst_child
                              ELSE snd_child
             IN  IF arr[d.value] >= value(arr, next_heap) THEN arr
                 ELSE swap(arr, d.value, value_mut(next_heap))

sift_down(arr, heap) ==
    LET d == destructure_mut(heap)
    IN  sift_down_loop(arr, d.value, d.children)

\* The for loop of restring over what is left of the iterator.
RECURSIVE restring_loop(_, _, _)
restring_loop(arr, this_subheap, subheap_iter) ==
    LET n == IterMut_next(subheap_iter)
    IN  IF n.item = None THEN arr
        ELSE LET next_subheap == n.item[1]
             IN  IF value(arr, next_subheap) <= value(arr, this_subheap) THEN arr
                 ELSE restring_loop(
                          sift_down(swap(arr, value_mut(next_subheap),
                                         value_mut(this_subheap)),
                                    next_subheap),
                          next_subheap, n.iter)

\* restring that swaps the heads without sifting the new head down.
RECURSIVE restring_loop_no_sift(_, _, _)
restring_loop_no_sift(arr, this_subheap, subheap_iter) ==
    LET n == IterMut_next(subheap_iter)
    IN  IF n.item = None THEN arr
        ELSE LET next_subheap == n.item[1]
             IN  IF value(arr, next_subheap) <= value(arr, this_subheap) THEN arr
                 ELSE restring_loop_no_sift(
                          swap(arr, value_mut(next_subheap), value_mut(this_subheap)),
                          next_subheap, n.iter)

restring_no_sift(arr, subheap_iter) ==
    LET n == IterMut_next(subheap_iter)
    IN  IF n.item = None THEN arr
        ELSE restring_loop_no_sift(arr, n.item[1], n.iter)

restring(arr, subheap_iter) ==
    LET n == IterMut_next(subheap_iter)
    IN  IF n.item = None THEN arr
        ELSE restring_loop(arr, n.item[1], n.iter)

\* heap_data is the slice handed in (a sequence); the result is Ok(slice
\* afterwards) or Panic(slice at the panic).
\* balance_after_push without the call of restring.
balance_after_push_no_restring(heap_data, layout) ==
    IF Len(heap_data) /= Layout_len(layout) THEN Panic(heap_data)
    ELSE LET it == Layout_iter(layout, Len(heap_data))
         IN  IF ~it.ok THEN Panic(heap_data)
             ELSE LET first == IterMut_next(it.val)
                  IN  IF first.item = None THEN Panic(heap_data)
                      ELSE Ok(sift_down(heap_data, first.item[1]))

balance_after_push(heap_data, layout) ==
    IF Len(heap_data) /= Layout_len(layout) THEN Panic(heap_data)
    ELSE LET it == Layout_iter(layout, Len(heap_data))
         IN  IF ~it.ok THEN Panic(heap_data)
             ELSE LET first == IterMut_next(it.val)
                  IN  IF first.item = None THEN Panic(heap_data)  \* unwrap()
                      ELSE Ok(restring(sift_down(heap_data, first.item[1]), it.val))

\* balance_after_pop with the pass from the second subheap left out.
balance_after_pop_one_pass(heap_data, layout) ==
    LET it == Layout_iter(layout, Len(heap_data))
    IN  IF ~it.ok THEN Panic(heap_data)
        ELSE LET n1 == IterMut_next(it.val)
                 n2 == IterMut_next(n1.iter)
             IN  IF n1.item /= None /\ n2.item /= None
                 THEN LET fst == n1.item[1]
                          snd == n2.item[1]
                      IN  IF snd.order - fst.order /= 1 THEN Ok(heap_data)
                          ELSE Ok(restring(heap_data, it.val))
                 ELSE Ok(heap_data)

\* balance_after_pop without the return on orders that are not consecutive.
balance_after_pop_always(heap_data, layout) ==
    LET it == Layout_iter(layout, Len(heap_data))
    IN  IF ~it.ok THEN Panic(heap_data)
        ELSE LET n1 == IterMut_next(it.val)
                 n2 == IterMut_next(n1.iter)
             IN  IF n1.item /= None /\ n2.item /= None
                 THEN Ok(restring(restring(heap_data, n1.iter), it.val))
                 ELSE Ok(heap_data)

\* balance_after_pop that returns when the lengths differ.
balance_after_pop_tolerant(heap_data, layout) ==
    LET it == Layout_iter(layout, Len(heap_data))
    IN  IF ~it.ok THEN Ok(heap_data)
        ELSE LET n1 == IterMut_next(it.val)
                 n2 == IterMut_next(n1.iter)
             IN  IF n1.item /= None /\ n2.item /= None
                 THEN LET fst == n1.item[1]
                          snd == n2.item[1]
                      IN  IF snd.order - fst.order /= 1 THEN Ok(heap_data)
                          ELSE Ok(restring(restring(heap_data, n1.iter), it.val))
                 ELSE Ok(heap_data)

balance_after_pop(heap_data, layout) ==
    LET it == Layout_iter(layout, Len(heap_data))
    IN  IF ~it.ok THEN Panic(heap_data)
        ELSE LET n1 == IterMut_next(it.val)
                 n2 == IterMut_next(n1.iter)
             IN  IF n1.item /= None /\ n2.item /= None
                 THEN LET fst == n1.item[1]
                          snd == n2.item[1]
                      IN  IF snd.order - fst.order /= 1 THEN Ok(heap_data)
                          ELSE \* restring from the second subheap, then from the first
                               Ok(restring(restring(heap_data, n1.iter), it.val))
                 ELSE Ok(heap_data)

(***************************************************************************)
(* lib.rs: LeonardoHeap.  A heap is [data, layout]; an operation yields    *)
(* [ok, data, layout, result]: the fields as it returns, or as they are    *)
(* when it panics (ok = FALSE).                                            *)
(***************************************************************************)
\* The sequence s with x put before the first element smaller than it: a
\* multiset of values is held as the non-increasing sequence of them.
RECURSIVE InsertDesc(_, _)
InsertDesc(s, x) ==
    IF s = <<>> THEN <<x>>
    ELSE IF x >= s[1] THEN <<x>> \o s
    ELSE <<s[1]>> \o InsertDesc(Tail(s), x)

RECURSIVE SortDesc(_)
SortDesc(s) == IF s = <<>> THEN <<>> ELSE InsertDesc(SortDesc(Tail(s)), s[1])

Reverse(s) == [i \in 1..Len(s) |-> s[Len(s) + 1 - i]]

SortAsc(s) == Reverse(SortDesc(s))

LeonardoHeap_new == [data |-> <<>>, layout |-> Layout_new]

Front(s) == SubSeq(s, 1, Len(s) - 1)

LeonardoHeap_push(h, item) ==
    LET data == Append(h.data, item)
        layout == Layout_push(h.layout)
        b == balance_after_push(data, layout)
    IN  [ok |-> b.ok, data |-> b.val, layout |-> layout, result |-> None]

LeonardoHeap_peek(h) ==
    LET i == Len(h.data)      \* self.data.get(self.data.len()), 0-based
    IN  [ok |-> TRUE, data |-> h.data, layout |-> h.layout,
         result |-> IF i < Len(h.data) THEN Some(h.data[i + 1]) ELSE None]

LeonardoHeap_pop(h) ==
    LET result == IF h.data = <<>> THEN None ELSE Some(h.data[Len(h.data)])
        data == IF h.data = <<>> THEN h.data ELSE Front(h.data)
        layout == Layout_pop(h.layout)
        b == balance_after_pop(data, layout)
    IN  [ok |-> b.ok, data |-> b.val, layout |-> layout, result |-> result]

\* The loop of sort, for i in (0..k).rev(), on a clone of the layout.
RECURSIVE sort_loop(_, _, _)
sort_loop(data, layout, k) ==
    IF k = 0 THEN Ok(data)
    ELSE LET i == k - 1
             popped_layout == Layout_pop(layout)
             b == balance_after_pop(SubSeq(data, 1, i), popped_layout)
             after == b.val \o SubSeq(data, i + 1, Len(data))
         IN  IF ~b.ok THEN Panic(after)
             ELSE sort_loop(after, popped_layout, i)

\* sort that pops self.layout instead of a clone of it.
LeonardoHeap_sort_no_clone(h) ==
    LET s == sort_loop(h.data, h.layout, Len(h.data))
    IN  [ok |-> s.ok, data |-> s.val, layout |-> Layout_new, result |-> None]

LeonardoHeap_sort(h) ==
    LET s == sort_loop(h.data, h.layout, Len(h.data))
    IN  [ok |-> s.ok, data |-> s.val, layout |-> h.layout, result |-> None]

\* The loop of heapify, for i in 0..len, on a layout of its own.
RECURSIVE heapify_loop(_, _, _)
heapify_loop(data, layout, i) ==
    IF i >= Len(data) THEN Ok(data)
    ELSE LET b == balance_after_push(SubSeq(data, 1, i), layout)
             after == b.val \o SubSeq(data, i + 1, Len(data))
         IN  IF ~b.ok THEN Panic(after)
             ELSE heapify_loop(after, Layout_push(layout), i + 1)

\* self.layout is not assigned by heapify.
LeonardoHeap_heapify(h) ==
    LET r == heapify_loop(h.data, Layout_new, 0)
    IN  [ok |-> r.ok, data |-> r.val, layout |-> h.layout, result |-> None]

\* Vec::retain: keep is the set of values the predicate accepts.
Vec_retain(data, keep) == SelectSeq(data, LAMBDA x : x \in keep)

\* Vec::dedup: drops each element equal to the one before it.
RECURSIVE Vec_dedup(_)
Vec_dedup(data) ==
    IF Len(data) <= 1 THEN data
    ELSE LET rest == Vec_dedup(Front(data))
         IN  IF data[Len(data)] = data[Len(data) - 1] THEN rest
             ELSE Append(rest, data[Len(data)])

LeonardoHeap_retain(h, keep) ==
    LeonardoHeap_heapify([data |-> Vec_retain(h.data, keep), layout |-> h.layout])

LeonardoHeap_clear(h) ==
    [ok |-> TRUE, data |-> <<>>, layout |-> Layout_new, result |-> None]

LeonardoHeap_dedup(h) ==
    LET s == LeonardoHeap_sort(h)
    IN  IF ~s.ok THEN s
        ELSE LeonardoHeap_heapify([data |-> Vec_dedup(s.data), layout |-> s.layout])

\* LeonardoHeap::iter: the Iter holds the slice [0, heap_len) of the heap's
\* array and a clone of its layout.
LeonardoHeap_iter(h) == [heap_len |-> Len(h.data), layout |-> h.layout]

\* Iter::next without the call of balance_after_pop.
Iter_next_no_balance(arr, it) ==
    LET popped_layout == Layout_pop(it.layout)
    IN  IF it.heap_len /= 0
        THEN [ok |-> TRUE, data |-> arr,
              iter |-> [heap_len |-> it.heap_len - 1, layout |-> popped_layout],
              result |-> Some(arr[it.heap_len])]
        ELSE [ok |-> TRUE, data |-> arr,
              iter |-> [heap_len |-> it.heap_len, layout |-> popped_layout],
              result |-> None]

\* Iter::next on the array arr the Iter borrows: [ok, data, iter, result].
Iter_next(arr, it) ==
    LET popped_layout == Layout_pop(it.layout)
    IN  IF it.heap_len /= 0
        THEN LET rest_len == it.heap_len - 1   \* split_last_mut
                 b == balance_after_pop(SubSeq(arr, 1, rest_len), popped_layout)
             IN  [ok |-> b.ok,
                  data |-> b.val \o SubSeq(arr, rest_len + 1, Len(arr)),
                  iter |-> [heap_len |-> rest_len, layout |-> popped_layout],
                  result |-> Some(arr[it.heap_len])]
        ELSE [ok |-> TRUE, data |-> arr,
              iter |-> [heap_len |-> it.heap_len, layout |-> popped_layout],
              result |-> None]

\* Drain::next until it returns None: Ok(the values popped, in order), or
\* Panic(the values popped before a pop panics).
RECURSIVE drain_loop(_, _)
drain_loop(h, out) ==
    LET r == LeonardoHeap_pop(h)
    IN  IF ~r.ok THEN Panic(out)
        ELSE IF r.result = None THEN Ok(out)
        ELSE drain_loop([data |-> r.data, layout |-> r.layout], out \o r.result)

Drain(h) == drain_loop(h, <<>>)

\* A new heap with the elements of s pushed, first to last.
RECURSIVE PushAll(_)
PushAll(s) ==
    IF s = <<>> THEN LeonardoHeap_new
    ELSE LET r == LeonardoHeap_push(PushAll(Front(s)), s[Len(s)])
         IN  [data |-> r.data, layout |-> r.layout]

(***************************************************************************)
(* The program: one heap, the operation last called on it and what it      *)
(* returned.  A panic ends the program.                                    *)
(***************************************************************************)
VARIABLES data, layout, result, op, panicked, pushed, popped,
          retain_f,    \* the values the predicate accepts, after retain
          iter,        \* None, or Some(the Iter that borrows the heap)
          yielded,     \* what that Iter has yielded, in order
          subheap,     \* None, or Some(a SubHeapMut view)
          components,  \* None, or Some(what destructuring subheap gave)
          heap_data    \* None, or Some(the slice a free function was given)

heap == [data |-> data, layout |-> layout]
vars == <<data, layout, result, op, panicked, pushed, popped,
          retain_f, iter, yielded, subheap, components, heap_data>>
views == <<iter, yielded, subheap, components, heap_data>>
ghost == <<pushed, popped, retain_f, views>>

Init ==
    /\ data = LeonardoHeap_new.data
    /\ layout = LeonardoHeap_new.layout
    /\ result = None
    /\ op = "new"
    /\ panicked = FALSE
    /\ pushed = <<>>
    /\ popped = <<>>
    /\ retain_f = Values
    /\ iter = None
    /\ yielded = <<>>
    /\ subheap = None
    /\ components = None
    /\ heap_data = None

\* The heap after a call named name that yields r.
Call(name, r) ==
    /\ ~panicked
    /\ data' = r.data
    /\ layout' = r.layout
    /\ result' = r.result
    /\ op' = name
    /\ panicked' = ~r.ok

\* A call other than retain takes no predicate.
NoPredicate ==
    /\ retain_f' = Values
    /\ UNCHANGED <<pushed, popped, views>>

Push ==
    /\ Len(data) < MaxLen
    /\ \E item \in Values : Call("push", LeonardoHeap_push(heap, item))
    /\ NoPredicate

Pop ==
    /\ Call("pop", LeonardoHeap_pop(heap))
    /\ NoPredicate

Peek ==
    /\ Call("peek", LeonardoHeap_peek(heap))
    /\ NoPredicate

Sort ==
    /\ Call("sort", LeonardoHeap_sort(heap))
    /\ NoPredicate

Dedup ==
    /\ Call("dedup", LeonardoHeap_dedup(heap))
    /\ NoPredicate

Retain ==
    /\ \E keep \in SUBSET Values :
          /\ Call("retain", LeonardoHeap_retain(heap, keep))
          /\ retain_f' = keep
    /\ UNCHANGED <<pushed, popped, views>>

Clear ==
    /\ Call("clear", LeonardoHeap_clear(heap))
    /\ NoPredicate

\* push and pop (and peek) only
NextPushPop == Push \/ Pop \/ Peek
SpecPushPop == Init /\ [][NextPushPop]_vars

\* push, pop and sort
NextSort == Push \/ Pop \/ Sort
SpecSort == Init /\ [][NextSort]_vars

\* every public mutating operation
Next == Push \/ Pop \/ Peek \/ Sort \/ Dedup \/ Retain \/ Clear
Spec == Init /\ [][Next]_vars

\* Push values onto a new heap, then pop until pop returns None: pushed is the
\* multiset of the values pushed, popped the values popped, in order.
DrainPush ==
    /\ op \in {"new", "push"}
    /\ Len(data) < MaxLen
    /\ \E item \in Values :
          /\ Call("push", LeonardoHeap_push(heap, item))
          /\ pushed' = InsertDesc(pushed, item)
    /\ UNCHANGED <<popped, retain_f, views>>

DrainPop ==
    /\ ~(op = "pop" /\ result = None)
    /\ Call("pop", LeonardoHeap_pop(heap))
    /\ popped' = popped \o result'
    /\ UNCHANGED <<pushed, retain_f, views>>

NextDrain == DrainPush \/ DrainPop
SpecDrain == Init /\ [][NextDrain]_vars

\* A heap built by push and pop, then iter() and calls of next on the Iter,
\* which borrows the heap for as long as it lives.
HeapPush == iter = None /\ Push

HeapPop == iter = None /\ Pop

IterStart ==
    /\ ~panicked
    /\ iter = None
    /\ iter' = Some(LeonardoHeap_iter(heap))
    /\ yielded' = <<>>
    /\ op' = "iter"
    /\ result' = None
    /\ UNCHANGED <<data, layout, panicked, pushed, popped, retain_f,
                   subheap, components, heap_data>>

IterNext ==
    /\ ~panicked
    /\ iter /= None
    /\ LET r == Iter_next(data, iter[1])
       IN  /\ data' = r.data
           /\ iter' = Some(r.iter)
           /\ result' = r.result
           /\ yielded' = yielded \o r.result
           /\ panicked' = ~r.ok
    /\ op' = "iter_next"
    /\ UNCHANGED <<layout, pushed, popped, retain_f, subheap, components,
                   heap_data>>

NextIter == HeapPush \/ HeapPop \/ IterStart \/ IterNext
SpecIter == Init /\ [][NextIter]_vars

\* The sequences over S of length n, and of a length up to n.
SeqsOfLen(S, n) == [1..n -> S]

SeqsUpTo(S, n) == UNION {SeqsOfLen(S, k) : k \in 0..n}

\* The free functions and Layout::iter called once on an array and a layout.
BalanceAfterPush ==
    /\ op = "new"
    /\ LET b == balance_after_push(data, layout)
       IN  data' = b.val /\ panicked' = ~b.ok
    /\ op' = "balance_after_push"
    /\ heap_data' = Some(data)
    /\ UNCHANGED <<layout, result, pushed, popped, retain_f,
                   iter, yielded, subheap, components>>

BalanceAfterPop ==
    /\ op = "new"
    /\ LET b == balance_after_pop(data, layout)
       IN  data' = b.val /\ panicked' = ~b.ok
    /\ op' = "balance_after_pop"
    /\ heap_data' = Some(data)
    /\ UNCHANGED <<layout, result, pushed, popped, retain_f,
                   iter, yielded, subheap, components>>

LayoutIter ==
    /\ op = "new"
    /\ panicked' = ~Layout_iter(layout, Len(data)).ok
    /\ op' = "Layout_iter"
    /\ heap_data' = Some(data)
    /\ UNCHANGED <<data, layout, result, pushed, popped, retain_f,
                   iter, yielded, subheap, components>>

\* Any array with a layout of any size, as in the mismatched_lengths tests.
InitMismatch ==
    /\ data \in SeqsUpTo(Values, MaxMismatchLen)
    /\ layout \in {Layout_new_from_len(n) : n \in 0..MaxMismatchSize}
    /\ result = None
    /\ op = "new"
    /\ panicked = FALSE
    /\ pushed = <<>>
    /\ popped = <<>>
    /\ retain_f = Values
    /\ iter = None
    /\ yielded = <<>>
    /\ subheap = None
    /\ components = None
    /\ heap_data = None

NextMismatch == BalanceAfterPush \/ BalanceAfterPop \/ LayoutIter
SpecMismatch == InitMismatch /\ [][NextMismatch]_vars

\* A Layout on its own, pushed and popped from Layout::new().
LayoutPush ==
    /\ Layout_len(layout) < MaxLayoutSize
    /\ layout' = Layout_push(layout)
    /\ op' = "Layout_push"
    /\ UNCHANGED <<data, result, panicked, ghost>>

LayoutPop ==
    /\ layout' = Layout_pop(layout)
    /\ op' = "Layout_pop"
    /\ UNCHANGED <<data, result, panicked, ghost>>

NextLayout == LayoutPush \/ LayoutPop
SpecLayout == Init /\ [][NextLayout]_vars

(***************************************************************************)
(* Properties                                                              *)
(***************************************************************************)
Max(s) == CHOOSE x \in {s[i] : i \in 1..Len(s)} : \A j \in 1..Len(s) : s[j] <= x

HasDuplicates(s) == \E i, j \in 1..Len(s) : i /= j /\ s[i] = s[j]

\* C1: values pushed in any order onto a new heap, duplicates included, come
\* back from pop, called until it returns None, each once per occurrence and
\* in non-increasing order.
C1_PushAllThenDrain ==
    (op = "pop" /\ result = None) => (~panicked /\ popped = pushed)

C1_Witness ==
    /\ op = "pop" /\ result = None /\ ~panicked
    /\ Len(popped) >= 9
    /\ HasDuplicates(popped)
    /\ popped[1] > popped[Len(popped)]

\* C2: in any interleaving of push and pop, a pop on a non-empty heap returns
\* a maximum of the elements held and removes that one occurrence only.
C2_PopReturnsMax ==
    [][(op' = "pop" /\ data /= <<>>) =>
          /\ ~panicked'
          /\ result' = Some(Max(data))
          /\ SortDesc(data') = Tail(SortDesc(data))]_vars

C2_Witness ==
    op = "pop" /\ result /= None /\ ~panicked /\ Len(data) >= 7

\* C3: on a non-empty heap peek returns the last element of the array, which
\* is the largest element held, and changes neither the array nor the layout.
C3_PeekReturnsMax ==
    [][(op' = "peek" /\ data /= <<>>) =>
          /\ result' = Some(data[Len(data)])
          /\ data[Len(data)] = Max(data)
          /\ data' = data
          /\ layout' = layout]_vars

\* C4: peek and pop on an empty heap return None without a panic and leave the
\* heap as a new heap is: an empty array, a layout of size 0 with no order set.
C4_EmptyPeekPop ==
    [][(op' \in {"peek", "pop"} /\ data = <<>>) =>
          /\ ~panicked'
          /\ result' = None
          /\ data' = LeonardoHeap_new.data
          /\ layout' = LeonardoHeap_new.layout]_vars

C4_Witness ==
    /\ op = "pop" /\ result = None /\ ~panicked
    /\ data = <<>> /\ layout = Layout_new

\* C5: sort() leaves the array as the ascending sort of the elements held.
C5_SortAscending ==
    [][op' = "sort" => (~panicked' /\ data' = SortAsc(data))]_vars

C5_Witness ==
    op = "sort" /\ ~panicked /\ Len(data) >= 8 /\ data[1] < data[Len(data)]

\* C6: sort() keeps the length and the layout, and the sorted array is a heap
\* under that layout: popping it until empty yields the elements largest
\* first, and every pop called after a sort, with pushes in between or
\* not, returns a maximum of the elements held.
C6_SortKeepsHeap ==
    [][/\ op' = "sort" =>
             /\ ~panicked'
             /\ layout' = layout
             /\ Len(data') = Len(data)
             /\ Drain([data |-> data', layout |-> layout']) = Ok(SortDesc(data))
       /\ (op' = "pop" /\ data /= <<>>) =>
             (~panicked' /\ result' = Some(Max(data)))]_vars

C6_Witness ==
    /\ op = "sort" /\ ~panicked /\ Len(data) >= 8 /\ HasDuplicates(data)
    /\ Layout_len(layout) = Len(data) /\ layout.orders /= 0

\* C7: after any sequence of push and pop calls, pop on an empty heap
\* included, the array is as long as the layout's size says.
C7_LenMatchesLayout ==
    ~panicked /\ Len(data) = Layout_len(layout)

C7_Witness ==
    op = "pop" /\ Len(data) >= 7 /\ Len(data) = Layout_len(layout)

\* C8: after every public mutating operation that completes (push, pop, sort,
\* dedup, retain, clear, in any sequence) the array is as long as the layout's
\* size says.
C8_LenMatchesLayoutAllOps ==
    ~panicked => Len(data) = Layout_len(layout)

\* C9: heapify(), as retain and dedup run it on the array they leave, completes
\* and leaves a heap that pops, until empty, the sequence that pushing the
\* array's elements one by one onto a new heap pops.
C9_HeapifyAsPushes ==
    op \in {"retain", "dedup"} =>
        (~panicked /\ Drain(heap) = Drain(PushAll(data)))

\* C10: dedup() on a heap holding duplicate values leaves a heap that pops,
\* until empty, the distinct values in descending order, each once.
C10_DedupDistinct ==
    [][(op' = "dedup" /\ HasDuplicates(data)) =>
          /\ ~panicked'
          /\ Drain([data |-> data', layout |-> layout'])
                = Ok(Vec_dedup(SortDesc(data)))]_vars

\* C11: retain(f) completes and leaves a heap of exactly the elements f
\* accepts: popped until empty it yields them in non-increasing order.
C11_RetainKeeps ==
    [][op' = "retain" =>
          /\ ~panicked'
          /\ Drain([data |-> data', layout |-> layout'])
                = Ok(SortDesc(Vec_retain(data, retain_f')))]_vars

IsNonIncreasing(s) == \A i \in 1..(Len(s) - 1) : s[i] >= s[i + 1]

\* C12: the Iter of a heap of n elements yields n values, largest first, each
\* an element of the heap once per occurrence, and then None; the heap keeps
\* its elements, its length and its layout.
C12_IterSortedAll ==
    [][op' = "iter_next" =>
          /\ ~panicked'
          /\ layout' = layout
          /\ Len(data') = Len(data)
          /\ SortDesc(data') = SortDesc(data)
          /\ (result' = None) <=> (Len(yielded) = Len(data))
          /\ IsNonIncreasing(yielded')
          /\ result' = None => yielded' = SortDesc(data)]_vars

C12_Witness ==
    /\ op = "iter_next" /\ result = None /\ ~panicked
    /\ Len(yielded) >= 9 /\ yielded[1] > yielded[Len(yielded)]
    /\ Len(data) = Len(yielded)

\* C13: balance_after_push, balance_after_pop and Layout::iter, given an array
\* whose length is not the layout's size, panic and leave the array as it was.
C13_MismatchPanics ==
    [][(op' \in {"balance_after_push", "balance_after_pop", "Layout_iter"}
          /\ Len(data) /= Layout_len(layout)) =>
          (panicked' /\ data' = data)]_vars

C13_Witness ==
    /\ op = "balance_after_pop" /\ panicked
    /\ Len(data) = 4 /\ layout = Layout_new_from_len(12)

\* The orders set in a bitmask, and the sum of their Leonardo numbers.
RECURSIVE OrdersFrom(_, _)
OrdersFrom(orders, k) ==
    IF orders = 0 THEN {}
    ELSE (IF orders % 2 = 1 THEN {k} ELSE {}) \cup OrdersFrom(orders \div 2, k + 1)

OrdersOf(l) == OrdersFrom(l.orders, 0)

RECURSIVE SumLeonardo(_)
SumLeonardo(S) ==
    IF S = {} THEN 0
    ELSE LET k == CHOOSE x \in S : TRUE
         IN  leonardo(k) + SumLeonardo(S \ {k})

\* C14: after any sequence of Layout push and pop calls, the Leonardo numbers
\* of the orders set add up to the size; no order is set exactly at size 0.
C14_OrdersSumToSize ==
    /\ SumLeonardo(OrdersOf(layout)) = Layout_len(layout)
    /\ (layout.orders = 0) <=> (Layout_len(layout) = 0)

C14_Witness ==
    /\ op = "Layout_pop" /\ Layout_len(layout) >= 100
    /\ Cardinality(OrdersOf(layout)) >= 4

\* The top-level subheaps of an array of length len under layout l, as
\* Layout::iter yields them: from the smallest order to the largest.
RECURSIVE CollectSubheaps(_)
CollectSubheaps(it) ==
    LET n == IterMut_next(it)
    IN  IF n.item = None THEN <<>> ELSE n.item \o CollectSubheaps(n.iter)

TopLevel(l, len) == CollectSubheaps(Layout_iter(l, len).val)

\* The heads of the top-level subheaps, in that order.
Roots(arr, l) ==
    LET t == TopLevel(l, Len(arr)) IN [i \in 1..Len(t) |-> value(arr, t[i])]

\* Every head in the subheap sh, at every level, is >= the heads of its children.
RECURSIVE IsMaxHeap(_, _)
IsMaxHeap(arr, sh) ==
    LET d == destructure_mut(sh)
    IN  \/ d.children = None
        \/ /\ arr[d.value] >= value(arr, d.children[1])
           /\ arr[d.value] >= value(arr, d.children[2])
           /\ IsMaxHeap(arr, d.children[1])
           /\ IsMaxHeap(arr, d.children[2])

HeapProperty(arr, l) ==
    LET t == TopLevel(l, Len(arr)) IN \A i \in 1..Len(t) : IsMaxHeap(arr, t[i])

\* The head of each top-level subheap is >= the head of the one to its left
\* in the array, which is the next one Layout::iter yields.
StringProperty(arr, l) == IsNonIncreasing(Roots(arr, l))

\* C15: after every completed push and pop the heap property holds in every
\* subheap at every level, the string property holds along the top-level
\* subheaps, and so the last element of the array is a maximum.
C15_HeapAndString ==
    /\ ~panicked
    /\ HeapProperty(data, layout)
    /\ StringProperty(data, layout)
    /\ data /= <<>> => data[Len(data)] = Max(data)

C15_Witness ==
    /\ op = "pop" /\ Len(data) = 8
    /\ data[1] > data[2]
    /\ Cardinality({data[i] : i \in 1..Len(data)}) >= 3

IsNonDecreasing(s) == \A i \in 1..(Len(s) - 1) : s[i] <= s[i + 1]

\* C16 (as claimed): after restring, run by balance_after_push and
\* balance_after_pop, the heads of the top-level subheaps, read from the
\* smallest order to the largest, are non-decreasing.
C16_RootsNonDecreasing ==
    (op \in {"push", "pop"} /\ ~panicked) => IsNonDecreasing(Roots(data, layout))

\* C16 (amended): after restring, run by balance_after_push and
\* balance_after_pop, the heads of the top-level subheaps, read from the
\* smallest order to the largest, are non-increasing: the largest head is
\* that of the smallest order, the last element of the array.
C16_RootsNonIncreasing ==
    (op \in {"push", "pop"}) =>
        (~panicked /\ IsNonIncreasing(Roots(data, layout)))

C16_Witness ==
    /\ op = "pop" /\ ~panicked
    /\ Len(Roots(data, layout)) >= 3
    /\ Roots(data, layout)[1] > Roots(data, layout)[2]
    /\ Roots(data, layout)[2] > Roots(data, layout)[3]

\* The orders k such that both k and k + 1 are set in the layout l.
AdjacentPairs(l) == {k \in OrdersOf(l) : (k + 1) \in OrdersOf(l)}

AtMostOneLowestPair(l) ==
    /\ Cardinality(AdjacentPairs(l)) <= 1
    /\ \A k \in AdjacentPairs(l) : lowest_order(l) = Some(k)

\* C18: in every layout reached from the empty layout by push and pop, and in
\* the layout new_from_len builds for the same size, at most one pair of
\* adjacent orders is set, and such a pair is the two lowest set orders.
C18_OnePairLowest ==
    /\ AtMostOneLowestPair(layout)
    /\ AtMostOneLowestPair(Layout_new_from_len(Layout_len(layout)))

C18_Witness ==
    /\ op = "Layout_pop"
    /\ Cardinality(OrdersOf(layout)) >= 4
    /\ AdjacentPairs(layout) /= {}
    /\ \A k \in AdjacentPairs(layout) : k >= 2 /\ lowest_order(layout) = Some(k)

\* C19: the layout reached by any sequence of push and pop calls is the one
\* new_from_len builds for its size, in both orders and size.
C19_NewFromLenCanonical ==
    /\ Layout_new_from_len(Layout_len(layout)).orders = layout.orders
    /\ Layout_new_from_len(Layout_len(layout)).size = layout.size

C19_Witness ==
    /\ op = "Layout_pop"
    /\ Layout_len(layout) >= 100
    /\ Layout_new_from_len(Layout_len(layout)) = layout
    /\ Cardinality(OrdersOf(layout)) >= 3

(***************************************************************************)
(* Subheap views on their own: a view of order k over the span             *)
(* [lo, lo + leonardo(k)) of some array, destructured and descended into.  *)
(***************************************************************************)
MaxOrder == 9
MaxOffset == 9

InitSubHeap ==
    /\ data = <<>>
    /\ layout = Layout_new
    /\ result = None
    /\ op = "new"
    /\ panicked = FALSE
    /\ pushed = <<>>
    /\ popped = <<>>
    /\ retain_f = Values
    /\ iter = None
    /\ yielded = <<>>
    /\ components = None
    /\ heap_data = None
    /\ \E order \in 0..MaxOrder, lo \in 0..MaxOffset :
           subheap = Some(SubHeapMut_new(lo, lo + leonardo(order), order))

DestructureMut ==
    /\ components = None
    /\ components' = Some(destructure_mut(subheap[1]))
    /\ op' = "destructure_mut"
    /\ UNCHANGED <<data, layout, result, panicked, pushed, popped,
                   retain_f, iter, yielded, subheap, heap_data>>

IntoComponents ==
    /\ components = None
    /\ components' = Some(into_components(subheap[1]))
    /\ op' = "into_components"
    /\ UNCHANGED <<data, layout, result, panicked, pushed, popped,
                   retain_f, iter, yielded, subheap, heap_data>>

\* Carry on with one of the children, as sift_down does.
Descend ==
    /\ components /= None
    /\ components[1].children /= None
    /\ \E i \in 1..2 : subheap' = Some(components[1].children[i])
    /\ components' = None
    /\ op' = "new"
    /\ UNCHANGED <<data, layout, result, panicked, pushed, popped,
                   retain_f, iter, yielded, heap_data>>

NextSubHeap == DestructureMut \/ IntoComponents \/ Descend

SpecSubHeap == InitSubHeap /\ [][NextSubHeap]_vars

Destructured ==
    /\ op \in {"destructure_mut", "into_components"}
    /\ subheap[1].order > 1

\* The child of order o among the two children c.
ChildOfOrder(c, o) == CHOOSE x \in {c[1], c[2]} : x.order = o

\* C17 (as claimed): destructuring a view of order k > 1 takes the last
\* element of the span as the head, the first L(k-2) elements of the rest as
\* the child of order k-2 and the remaining elements as the child of order k-1.
C17_SplitFstFirst ==
    Destructured =>
        LET sh == subheap[1]
            c == components[1]
            k == sh.order
        IN  /\ c.value = sh.hi
            /\ ChildOfOrder(c.children, k - 2)
                  = [lo |-> sh.lo, hi |-> sh.lo + leonardo(k - 2), order |-> k - 2]
            /\ ChildOfOrder(c.children, k - 1)
                  = [lo |-> sh.lo + leonardo(k - 2), hi |-> sh.hi - 1, order |-> k - 1]

\* C17 (amended): destructuring a view of order k > 1 takes the last element
\* of the span as the head, the first L(k-1) elements of the rest as the
\* child of order k-1 and the remaining L(k-2) elements as the child of
\* order k-2; the pair is returned as (order k-2, order k-1).
C17_SplitSndFirst ==
    Destructured =>
        LET sh == subheap[1]
            c == components[1]
            k == sh.order
        IN  /\ c.value = sh.hi
            /\ c.children[2]
                  = [lo |-> sh.lo, hi |-> sh.lo + leonardo(k - 1), order |-> k - 1]
            /\ c.children[1]
                  = [lo |-> sh.lo + leonardo(k - 1), hi |-> sh.hi - 1, order |-> k - 2]
            /\ (sh.hi - 1) - (sh.lo + leonardo(k - 1)) = leonardo(k - 2)

C17_Witness ==
    /\ op = "destructure_mut"
    /\ subheap[1].order >= 4
    /\ subheap[1].lo > 0
    /\ components[1].children[2].hi = components[1].children[1].lo
    /\ components[1].children[2].hi - components[1].children[2].lo
          > components[1].children[1].hi - components[1].children[1].lo

(***************************************************************************)
(* balance_after_pop called once on any array with the layout of its       *)
(* length, as in the tests of balance_after_pop.                           *)
(***************************************************************************)
MaxBalanceLen == 7
MaxBalanceVal == 3

InitBalance ==
    /\ data \in SeqsUpTo(1..MaxBalanceVal, MaxBalanceLen)
    /\ layout = Layout_new_from_len(Len(data))
    /\ result = None
    /\ op = "new"
    /\ panicked = FALSE
    /\ pushed = <<>>
    /\ popped = <<>>
    /\ retain_f = Values
    /\ iter = None
    /\ yielded = <<>>
    /\ subheap = None
    /\ components = None
    /\ heap_data = None

NextBalance == BalanceAfterPop

SpecBalance == InitBalance /\ [][NextBalance]_vars

\* The heads of the top-level subheaps other than the two of lowest order,
\* read from the smallest order to the largest.
RootsFromThird(arr, l) ==
    LET r == Roots(arr, l) IN [i \in 1..(Len(r) - 2) |-> r[i + 2]]

\* What balance_after_pop is given: every top-level subheap is a max-heap,
\* and the heads other than the two of lowest order are in string order.
AlmostValid(arr, l) ==
    /\ HeapProperty(arr, l)
    /\ IsNonIncreasing(RootsFromThird(arr, l))

\* The two lowest orders of l are consecutive: what balance_after_pop tests.
LowestTwoAdjacent(l, len) ==
    LET t == TopLevel(l, len)
    IN  Len(t) >= 2 /\ t[2].order - t[1].order = 1

Valid(arr, l) == HeapProperty(arr, l) /\ StringProperty(arr, l)

\* C20 (as claimed): on any array whose top-level subheaps are max-heaps and
\* whose heads other than the two of lowest order are in string order,
\* balance_after_pop leaves the same multiset with every subheap a max-heap
\* and every top-level head >= the one to its left.
C20_BalanceAfterPopAny ==
    (op = "balance_after_pop" /\ AlmostValid(heap_data[1], layout)) =>
        /\ ~panicked
        /\ SortDesc(data) = SortDesc(heap_data[1])
        /\ Valid(data, layout)

\* C20 (amended): the same, for the arrays whose layout has its two lowest
\* orders consecutive, or has fewer than two subheaps; with two lowest
\* orders that are not consecutive balance_after_pop returns the array as
\* it was given.
C20_BalanceAfterPopAdjacent ==
    (op = "balance_after_pop" /\ AlmostValid(heap_data[1], layout)) =>
        /\ ~panicked
        /\ SortDesc(data) = SortDesc(heap_data[1])
        /\ (LowestTwoAdjacent(layout, Len(data))
               \/ Len(TopLevel(layout, Len(data))) < 2) => Valid(data, layout)
        /\ ~LowestTwoAdjacent(layout, Len(data)) => data = heap_data[1]

C20_Witness ==
    /\ op = "balance_after_pop" /\ ~panicked
    /\ Len(data) = 7
    /\ AlmostValid(heap_data[1], layout)
    /\ LowestTwoAdjacent(layout, Len(data))
    /\ ~Valid(heap_data[1], layout)
    /\ Valid(data, layout)
    /\ data[5] /= heap_data[1][5]
    /\ data[7] /= heap_data[1][7]

(***************************************************************************)
(* One turn of the loop of sort, the same two calls as pop makes:          *)
(* Layout::pop on the layout, then balance_after_pop on the array less its *)
(* last element.  heap_data holds the slice balance_after_pop was given.   *)
(***************************************************************************)
LayoutPopSlice ==
    /\ op \in {"new", "Layout_pop"}
    /\ ~panicked
    /\ data /= <<>>
    /\ LET popped_layout == Layout_pop(layout)
           b == balance_after_pop(Front(data), popped_layout)
       IN  /\ layout' = popped_layout
           /\ data' = b.val
           /\ panicked' = ~b.ok
    /\ heap_data' = Some(Front(data))
    /\ op' = "Layout_pop"
    /\ UNCHANGED <<result, pushed, popped, retain_f,
                   iter, yielded, subheap, components>>

NextPopBalance == LayoutPopSlice

SpecPopBalance == InitBalance /\ [][NextPopBalance]_vars

\* C21: after Layout::pop on a non-empty reachable layout the two lowest
\* remaining orders differ by exactly 1 if and only if the subheap removed
\* had order >= 2; when they do not, balance_after_pop returns without
\* changing any element of the array.
C21_AdjacentIffSplit ==
    [][op' = "Layout_pop" =>
          /\ ~panicked'
          /\ layout' = Layout_pop(layout)
          /\ LowestTwoAdjacent(layout', Len(data'))
                <=> lowest_order(layout)[1] >= 2
          /\ ~LowestTwoAdjacent(layout', Len(data')) => data' = Front(data)]_vars

C21_Witness ==
    /\ op = "Layout_pop" /\ ~panicked
    /\ Len(TopLevel(layout, Len(data))) = 2
    /\ ~LowestTwoAdjacent(layout, Len(data))
    /\ ~StringProperty(data, layout)
    /\ data = heap_data[1]

(***************************************************************************)
(* sift_down called once on a subheap view that spans a whole array, as in *)
(* the tests of sift_down.                                                 *)
(***************************************************************************)
MaxSiftLen == 9
MaxSiftVal == 3

InitSiftDown ==
    /\ \E order \in 0..MaxSiftLen :
          /\ leonardo(order) <= MaxSiftLen
          /\ data \in SeqsOfLen(1..MaxSiftVal, leonardo(order))
          /\ subheap = Some(SubHeapMut_new(0, leonardo(order), order))
    /\ layout = Layout_new
    /\ result = None
    /\ op = "new"
    /\ panicked = FALSE
    /\ pushed = <<>>
    /\ popped = <<>>
    /\ retain_f = Values
    /\ iter = None
    /\ yielded = <<>>
    /\ components = None
    /\ heap_data = None

SiftDown ==
    /\ op = "new"
    /\ data' = sift_down(data, subheap[1])
    /\ heap_data' = Some(data)
    /\ op' = "sift_down"
    /\ UNCHANGED <<layout, result, panicked, pushed, popped, retain_f,
                   iter, yielded, subheap, components>>

NextSiftDown == SiftDown

SpecSiftDown == InitSiftDown /\ [][NextSiftDown]_vars

\* Both children of the subheap sh, when it has children, are max-heaps.
ChildrenAreHeaps(arr, sh) ==
    LET d == destructure_mut(sh)
    IN  \/ d.children = None
        \/ IsMaxHeap(arr, d.children[1]) /\ IsMaxHeap(arr, d.children[2])

\* The elements of arr in the span of the subheap sh, as a multiset.
SpanOf(arr, sh) == SortDesc(SubSeq(arr, sh.lo + 1, sh.hi))

\* C22: given a subheap whose children are max-heaps, sift_down leaves the
\* whole subheap a max-heap at every level, with the same multiset of
\* elements; on a subheap of order 0 or 1 it changes nothing.
C22_SiftDownRestoresHeap ==
    op = "sift_down" =>
        LET sh == subheap[1]
            given == heap_data[1]
        IN  /\ ChildrenAreHeaps(given, sh) =>
                  /\ IsMaxHeap(data, sh)
                  /\ SpanOf(data, sh) = SpanOf(given, sh)
            /\ sh.order <= 1 => data = given

C22_Witness ==
    /\ op = "sift_down"
    /\ subheap[1].order = 4
    /\ ChildrenAreHeaps(heap_data[1], subheap[1])
    /\ ~IsMaxHeap(heap_data[1], subheap[1])
    /\ Cardinality({i \in 1..Len(data) : data[i] /= heap_data[1][i]}) >= 3

\* The two children's heads are equal and greater than the parent's value.
TiedAboveParent(arr, sh) ==
    /\ sh.order > 1
    /\ LET d == destructure_mut(sh)
       IN  /\ value(arr, d.children[1]) = value(arr, d.children[2])
           /\ value(arr, d.children[1]) > arr[d.value]

\* C23: in sift_down on a subheap of order k > 1, when the two children's
\* heads are equal and greater than the parent's value, the parent is
\* swapped with the head of the child of order k-1 and the child of order
\* k-2 is left untouched.
C23_TiePrefersSnd ==
    (op = "sift_down" /\ TiedAboveParent(heap_data[1], subheap[1])) =>
        LET sh == subheap[1]
            given == heap_data[1]
            d == destructure_mut(sh)
            fst_child == d.children[1]
            snd_child == d.children[2]
        IN  /\ snd_child.order = sh.order - 1
            /\ fst_child.order = sh.order - 2
            /\ data[d.value] = value(given, snd_child)
            /\ \A i \in (fst_child.lo + 1)..fst_child.hi : data[i] = given[i]
            /\ SpanOf(data, snd_child)
                  = SortDesc(SubSeq(swap(given, d.value, value_mut(snd_child)),
                                    snd_child.lo + 1, snd_child.hi))

C23_Witness ==
    /\ op = "sift_down"
    /\ subheap[1].order >= 3
    /\ TiedAboveParent(heap_data[1], subheap[1])
    /\ data[Len(data)] > heap_data[1][Len(data)]
    /\ value(data, destructure_mut(subheap[1]).children[2])
          < value(heap_data[1], destructure_mut(subheap[1]).children[2])

(***************************************************************************)
(* Layout::iter on an array of the layout's length, advanced to its end.   *)
(* Here iter holds the IterMut and yielded the views it has given; only    *)
(* the length of the array matters, and the IterMut holds it.              *)
(***************************************************************************)
LayoutIterStart ==
    /\ iter = None
    /\ iter' = Some(Layout_iter(layout, Layout_len(layout)).val)
    /\ yielded' = <<>>
    /\ result' = None
    /\ op' = "Layout_iter"
    /\ UNCHANGED <<data, layout, panicked, pushed, popped, retain_f,
                   subheap, components, heap_data>>

LayoutIterNext ==
    /\ iter /= None
    /\ ~(op = "IterMut_next" /\ result = None)
    /\ LET n == IterMut_next(iter[1])
       IN  /\ iter' = Some(n.iter)
           /\ result' = n.item
           /\ yielded' = yielded \o n.item
    /\ op' = "IterMut_next"
    /\ UNCHANGED <<data, layout, panicked, pushed, popped, retain_f,
                   subheap, components, heap_data>>

NextLayoutIter ==
    \/ iter = None /\ NextLayout
    \/ LayoutIterStart
    \/ LayoutIterNext

SpecLayoutIter == Init /\ [][NextLayoutIter]_vars

\* The views v, in the order yielded, are of strictly increasing orders, each
\* spans L(order) elements, and each ends where the one before it starts,
\* the first at the end of an array of length len.
ContiguousFromTail(v, len) ==
    /\ \A i \in 1..Len(v) : v[i].hi - v[i].lo = leonardo(v[i].order)
    /\ \A i \in 1..(Len(v) - 1) :
          /\ v[i].order < v[i + 1].order
          /\ v[i + 1].hi = v[i].lo
    /\ v /= <<>> => v[1].hi = len

\* C24: on every reachable layout and an array of its length, Layout::iter
\* yields one view per set order, in strictly increasing order, each over
\* L(order) elements; the spans are disjoint and contiguous, the lowest
\* order is the tail of the array, and together they cover the array.
C24_IterViewsPartition ==
    (iter /= None) =>
        /\ ContiguousFromTail(yielded, Layout_len(layout))
        /\ \A i, j \in 1..Len(yielded) :
              i /= j => (yielded[i].hi <= yielded[j].lo \/ yielded[j].hi <= yielded[i].lo)
        /\ (op = "IterMut_next" /\ result = None) =>
              /\ {yielded[i].order : i \in 1..Len(yielded)} = OrdersOf(layout)
              /\ Len(yielded) = Cardinality(OrdersOf(layout))
              /\ yielded /= <<>> => yielded[Len(yielded)].lo = 0
              /\ SumLeonardo(OrdersOf(layout)) = Layout_len(layout)

C24_Witness ==
    /\ op = "IterMut_next" /\ result = None
    /\ Len(yielded) >= 4
    /\ Layout_len(layout) >= 100
    /\ yielded[1].hi = Layout_len(layout)
    /\ yielded[Len(yielded)].lo = 0

(***************************************************************************)
(* The Leonardo numbers on their own: the lookup and the iterative         *)
(* function called on an order of the table, as test_leonardo_lookup_      *)
(* matches does.  result holds the order asked for and the value returned, *)
(* and the locals of leonardo_naive while it runs.                         *)
(***************************************************************************)
TableOrders == 0..(Len(LEONARDO_NUMBERS_LIMBS) - 1)

LeonardoLookup ==
    /\ \E order \in TableOrders :
          result' = Some([order |-> order, value |-> Some(leonardo_lookup_limbs(order))])
    /\ op' = "leonardo_lookup"
    /\ UNCHANGED <<data, layout, panicked, ghost>>

LeonardoNaive ==
    /\ op /= "leonardo_naive"
    /\ \E order \in TableOrders : result' = Some(leonardo_naive(order))
    /\ op' = "leonardo_naive"
    /\ UNCHANGED <<data, layout, panicked, ghost>>

LeonardoNaiveLoop ==
    /\ op = "leonardo_naive"
    /\ result[1].value = None
    /\ result' = Some(leonardo_naive_loop(result[1]))
    /\ UNCHANGED <<data, layout, op, panicked, ghost>>

NextLeonardo == LeonardoLookup \/ LeonardoNaive \/ LeonardoNaiveLoop

SpecLeonardo == Init /\ [][NextLeonardo]_vars

\* C25: the lookup table has L(0) = L(1) = 1 and L(k) = L(k-1) + L(k-2) + 1
\* for every order k from 2 to 63; the entries held as integers are the
\* same numbers, and the iterative function returns the same values.
C25_TableRecurrence ==
    /\ Len(LEONARDO_NUMBERS_LIMBS) = 64
    /\ op = "leonardo_lookup" =>
          LET k == result[1].order
              v == result[1].value[1]
          IN  /\ k < 2 => v = <<0, 1>>
              /\ k >= 2 => v = AddLimbs(AddLimbs(leonardo_lookup_limbs(k - 1),
                                                 leonardo_lookup_limbs(k - 2)),
                                        <<0, 1>>)
              /\ v[2] \in 0..(LimbBase - 1)
              /\ k < Len(LEONARDO_NUMBERS) =>
                    leonardo_lookup(k) = v[1] * LimbBase + v[2]
    /\ (op = "leonardo_naive" /\ result[1].value /= None) =>
          result[1].value = Some(leonardo_lookup_limbs(result[1].order))

C25_Witness ==
    /\ op = "leonardo_lookup"
    /\ result[1].order = 63
    /\ result[1].value = Some(<<21220, 419715445>>)

(***************************************************************************)
(* The Iter dropped at any point: Iter has no destructor, so the heap is   *)
(* left with what the calls of next made of its array.                     *)
(***************************************************************************)
IterDrop ==
    /\ ~panicked
    /\ iter /= None
    /\ iter' = None
    /\ op' = "iter_drop"
    /\ UNCHANGED <<data, layout, result, panicked, pushed, popped, retain_f,
                   yielded, subheap, components, heap_data>>

\* The heap is built by push and pop, then only iterated over and dropped.
NextIterDrop ==
    \/ op /= "iter_drop" /\ HeapPush
    \/ op /= "iter_drop" /\ HeapPop
    \/ IterStart
    \/ IterNext
    \/ IterDrop

SpecIterDrop == Init /\ [][NextIterDrop]_vars

\* C26: however far the Iter was advanced when it is dropped, the heap holds
\* the same multiset under its unchanged layout and is a valid Leonardo
\* heap: popping until empty yields all its elements in non-increasing
\* order.
C26_IterLeavesValidHeap ==
    [][op' \in {"iter_next", "iter_drop"} =>
          /\ ~panicked'
          /\ layout' = layout
          /\ SortDesc(data') = SortDesc(data)
          /\ Len(data') = Layout_len(layout')
          /\ Valid(data', layout')
          /\ Drain([data |-> data', layout |-> layout'])
                = Ok(SortDesc(data'))]_vars

C26_Witness ==
    /\ op = "iter_drop" /\ ~panicked
    /\ Len(data) = 9
    /\ Len(yielded) >= 3 /\ Len(yielded) < Len(data)
    /\ yielded[1] > yielded[3]
    /\ data[1] > data[2]

\* C27: on every layout reached by push and pop, push followed by pop gives
\* back the same orders and size, and on every such layout that is not
\* empty so does pop followed by push.
C27_PushPopRoundTrip ==
    /\ Layout_pop(Layout_push(layout)).orders = layout.orders
    /\ Layout_pop(Layout_push(layout)).size = layout.size
    /\ Layout_len(layout) > 0 =>
          /\ Layout_push(Layout_pop(layout)).orders = layout.orders
          /\ Layout_push(Layout_pop(layout)).size = layout.size

C27_Witness ==
    /\ op = "Layout_push"
    /\ Layout_len(layout) >= 100
    /\ lowest_order(layout) = Some(0)
    /\ Layout_pop(Layout_push(layout)) = layout
    /\ Layout_push(Layout_pop(layout)) = layout
    /\ Layout_push(layout).orders = layout.orders + 1
    /\ Layout_pop(layout).orders = layout.orders - 1

====
